---- MODULE Spec2Model ----
(***************************************************************************)
(* Scheduling engine of the workspace build tool: Dispatcher.run (priority *)
(* assignment, cycle detection, sort), the debounce Dispatcher (one-shot   *)
(* pass, watch-mode queue, debounce timers, abort signal) and the rolldown *)
(* Dispatcher (watch loop, enqueue, triggerNext).                          *)
(***************************************************************************)
EXTENDS Integers, Sequences, FiniteSets, TLC

\* ------------------------------------------------------------------ bounds
\* Longest list of requested packages handed to Dispatcher.run.
MaxReq == 3

\* Number of reports of one burst that are told apart (the watch-mode scenario
\* has three).
ScenarioReports == 3

\* Number of stop signals (SIGINT, SIGTERM) that arrive during one run.
MaxSignals == 2

\* Number of stop() calls made on one activity.
MaxStops == 2

\* Number of ensureActive() calls that are recorded.
MaxEnsure == 2

\* The number of dependency entries in the package.json files.
MaxDeps == 2

\* The number of dependency entries when Workspace.discover is called twice.
MaxDepsAgain == 1

\* ------------------------------------------------------------- the packages
\* Workspace members in discovery order (Workspace.packages).
Members == <<"A", "B", "C", "D">>

Packages == {Members[i] : i \in 1..Len(Members)}

NoPkg == "none"

VARIABLES
    downstream,   \* Package.downstreamDependencies: package -> list of packages
    packages,     \* the list handed to Dispatcher.run
    runState,     \* "init" | "done" (entries built) | "threw" (cycle error)
    entries,      \* Dispatcher.entries: the sorted list of [pkg, priority]
    cycleInfo,    \* the names of the thrown message "dependency cycle [-> .. ->]"
    \* --- the debounce Dispatcher and its Builders
    watchMode,    \* call.isWatching
    phase,        \* "oneshot" | "watch" | "resolved" | "rejected": where run() is
    idx,          \* position of Dispatcher.build's loop in entries
    builds,       \* the Builder.build calls in flight: [pkg, left, by, burst]
    invoked,      \* the packages whose build Dispatcher.build has invoked, in order
    status,       \* the reporter's status of each package
    queue,        \* Dispatcher.queue
    isActive,     \* Dispatcher.isActive
    isDirty,      \* BuilderEntry.isDirty
    unbuilt,      \* history: a change was reported for the package and no build
                  \*   of it has started since (kept in the runs without observe)
    timers,       \* pending setTimeout(this.enqueue, DEBOUNCE_MS, entry) calls
    observe,      \* whether the bursts of reports behind the timers are recorded
    lastEnqueue,  \* how the latest enqueue call ended: "none" | "inserted" | "queued"
    aborted,      \* controller.signal.aborted
    signals,      \* number of stop signals that have arrived
    startCalls,   \* number of startWatching calls made on each package's Builder
    stopCalls,    \* number of stopWatching calls made on each package's Builder
    isWatching,   \* Builder.isWatching
    watchFiles,   \* Builder.watchFiles is not empty
    watchers,     \* Builder.watchers is not empty: a file watcher is open
    \* --- the rolldown Dispatcher and its Builders (one target per package)
    rPhase,       \* where watch() is: "loop" | "settling" | "resolved" | "rejected";
                  \*   where build() is: "build" | "resolved" | "rejected"
    rStatus,      \* the reporter's status of each package
    rIdx,         \* position of the loop of Dispatcher.watch in targets
    rAwait,       \* the target whose result.currentBuild the loop awaits
    wState,       \* each target's watcher: "none" | "building" | "idle" |
                  \*   "suspended" (restart handler pending) | "closed"
    rQueue,       \* Dispatcher.queue (the targets of the pending handles)
    isBuilding,   \* Dispatcher.isBuilding
    rChain,       \* the target whose handle.build() promise triggerNext awaits
    mainActive,   \* main.isActive
    \* --- the activities made by activity(block), and activity.completed
    aKind,        \* "none" (not made yet) | "void" | "promise" (what block returned) |
                  \*   "constant" (activity.completed)
    aIsActive,    \* isActive (!isStopped in the rollup variant)
    aCompleted,   \* the promise completed is resolved
    aBlock,       \* the promise block returned: "none" | "pending" | "fulfilled" |
                  \*   "rejected"
    aStops,       \* number of calls of stop() so far
    ensureLog,    \* the ensureActive() calls so far: [act, threw]
    \* --- Workspace.discover and Package.discover
    wsVariant,    \* "set": packages is a Set (part_012) | "array": an array (Workspace.ts)
    exclude,      \* options.exclude: the excluded package names
    manifest,     \* the dependency entries of the package.json files:
                  \*   [from, kind, to, ref]
    cache,        \* Package.cache: directory -> "undef" | "null" | a Package
    instances,    \* the Package objects made so far: instances[i] is the directory
                  \*   of the Package InstIds[i]
    procs,        \* the Package.discover calls: [pc, cwd, visited, result]
    wsPhase,      \* where Workspace.discover is: "root" | "glob" | "await" | "done" |
                  \*   "none" (it returned without a workspace)
    rootCwd,      \* cwd of the loop that finds the root package
    currentPackage, \* currentPackage of Workspace.discover
    wsRoot,       \* root: the workspace root Package
    globIdx,      \* position of the loop over fs.glob(root.declaration.workspaces)
    wsPackages,   \* packages of Workspace.discover, in insertion order
    wsDown,       \* downstreamDependencies of each Package
    wsUp,         \* upstreamDependents of each Package
    wsRun,        \* how Dispatcher.run on the discovered packages ended:
                  \*   "none" | "done" | "threw"
    wsFirst       \* what the first Workspace.discover call of the process
                  \*   returned, once a second call was made:
                  \*   [called, exclude, packages, down, up]

runVars == <<downstream, packages, runState, entries, cycleInfo>>

dbVars ==
    <<watchMode, phase, idx, builds, invoked, status, queue, isActive, isDirty, unbuilt,
      timers,
      lastEnqueue, aborted, signals, startCalls, stopCalls, isWatching, watchFiles,
      watchers, observe>>

rdVars ==
    <<rPhase, rStatus, rIdx, rAwait, wState, rQueue, isBuilding, rChain, mainActive>>

actVars == <<aKind, aIsActive, aCompleted, aBlock, aStops, ensureLog>>

wsVars ==
    <<wsVariant, exclude, manifest, cache, instances, procs, wsPhase, rootCwd,
      currentPackage, wsRoot, globIdx, wsPackages, wsDown, wsUp, wsRun, wsFirst>>

vars == <<runVars, dbVars, rdVars, actVars, wsVars>>

\* ------------------------------------------------------------ pure helpers
SeqToSet(s) == {s[i] : i \in 1..Len(s)}

\* Position of package p in the list of entries es (0 when absent).
IndexOf(es, p) ==
    IF \E i \in 1..Len(es) : es[i].pkg = p
    THEN CHOOSE i \in 1..Len(es) : es[i].pkg = p /\ \A j \in 1..(i - 1) : es[j].pkg # p
    ELSE 0

\* The members of S as a list in discovery order: the order in which
\* Workspace.discover pushes onto downstreamDependencies.
InMemberOrder(S) == SelectSeq(Members, LAMBDA p : p \in S)

\* ------------------------------------------------------- Dispatcher.run
VisitInit ==
    [visited |-> {}, visiting |-> {}, entries |-> <<>>,
     cycleStart |-> NoPkg, cycleInfo |-> <<>>, ret |-> TRUE, thrown |-> FALSE]

\* A mutant of IsCycleStart: the frame of the re-entered package is never
\* recognised, so no error is thrown.
IsCycleStartNever(st, pkg) == FALSE

\* if (cycleStart === pkg)
IsCycleStart(st, pkg) == st.cycleStart = pkg

RECURSIVE Visit(_, _, _, _)
RECURSIVE VisitDeps(_, _, _, _, _)

\* The loop over pkg.downstreamDependencies, from its i-th element on.
VisitDeps(g, st, pkg, i, priority) ==
    IF i > Len(g[pkg]) THEN [st EXCEPT !.ret = TRUE]
    ELSE LET s1 == Visit(g, st, g[pkg][i], priority + 1)
         IN  IF s1.thrown THEN s1
             ELSE IF ~s1.ret
                  THEN IF IsCycleStart(s1, pkg)
                       THEN [s1 EXCEPT !.thrown = TRUE]
                       ELSE [s1 EXCEPT !.cycleInfo = Append(@, pkg), !.ret = FALSE]
                  ELSE VisitDeps(g, s1, pkg, i + 1, priority)

\* A mutant of IsVisited: a visited package is traversed and added again.
IsVisitedNever(st, pkg) == FALSE

\* if (visited.has(pkg))
IsVisited(st, pkg) == pkg \in st.visited

\* const visit = (pkg, priority = 0) => ...
Visit(g, st, pkg, priority) ==
    IF IsVisited(st, pkg) THEN [st EXCEPT !.ret = TRUE]
    ELSE IF pkg \in st.visiting
         THEN [st EXCEPT !.cycleStart = pkg, !.cycleInfo = <<pkg>>, !.ret = FALSE]
         ELSE LET s1 == VisitDeps(g, [st EXCEPT !.visiting = @ \cup {pkg}], pkg, 1, priority)
              IN  IF s1.thrown \/ ~s1.ret THEN s1
                  ELSE [s1 EXCEPT !.visiting = @ \ {pkg},
                                  !.visited = @ \cup {pkg},
                                  !.entries = Append(@, [pkg |-> pkg, priority |-> priority]),
                                  !.ret = TRUE]

RECURSIVE ForEachVisit(_, _, _, _)

\* packages.forEach(visit): forEach calls visit(element, index, array), so the
\* second parameter of visit, priority, receives the element's 0-based index.
ForEachVisit(g, st, pkgs, i) ==
    IF i > Len(pkgs) \/ st.thrown THEN st
    ELSE ForEachVisit(g, Visit(g, st, pkgs[i], i - 1), pkgs, i + 1)

RECURSIVE InsertSorted(_, _)

\* Stable insertion of entry e into a list sorted by descending priority.
InsertSorted(es, e) ==
    IF es = <<>> THEN <<e>>
    ELSE IF es[Len(es)].priority >= e.priority THEN Append(es, e)
         ELSE Append(InsertSorted(SubSeq(es, 1, Len(es) - 1), e), es[Len(es)])

RECURSIVE SortEntries(_)

\* entries.sort((a, b) => b.priority - a.priority): Array.prototype.sort is
\* stable, the list ends up in descending priority.
SortEntries(es) ==
    IF es = <<>> THEN <<>>
    ELSE InsertSorted(SortEntries(SubSeq(es, 1, Len(es) - 1)), es[Len(es)])

\* The result of the gathering part of Dispatcher.run.
Gather(g, pkgs) ==
    LET st == ForEachVisit(g, VisitInit, pkgs, 1)
    IN  [thrown |-> st.thrown,
         entries |-> IF st.thrown THEN <<>> ELSE SortEntries(st.entries),
         cycleInfo |-> IF st.thrown THEN st.cycleInfo ELSE <<>>]

\* ------------------------------------------------ inputs of Dispatcher.run
\* Dependency graphs as Workspace.discover builds them: every list follows the
\* discovery order of the members.
Graphs ==
    {[p \in Packages |-> InMemberOrder(f[p])] :
        f \in {h \in [Packages -> SUBSET Packages] : \A p \in Packages : p \notin h[p]}}

\* Lists of distinct packages, in any order, of length 1..MaxReq.
RECURSIVE Requests(_)
Requests(n) ==
    IF n = 0 THEN {<<>>}
    ELSE LET shorter == Requests(n - 1)
         IN  shorter \cup {Append(s, p) : s \in {t \in shorter : Len(t) = n - 1},
                                          p \in Packages}

RequestLists ==
    {s \in Requests(MaxReq) : s # <<>> /\ \A i, j \in 1..Len(s) : i # j => s[i] # s[j]}

\* The debounce Dispatcher before Dispatcher.run has constructed it.
DbIdle ==
    /\ watchMode = FALSE
    /\ phase = "oneshot"
    /\ idx = 1
    /\ builds = <<>>
    /\ invoked = <<>>
    /\ status = [p \in Packages |-> "IDLE"]
    /\ queue = <<>>
    /\ isActive = FALSE
    /\ isDirty = [p \in Packages |-> FALSE]
    /\ unbuilt = [p \in Packages |-> FALSE]
    /\ timers = <<>>
    /\ lastEnqueue = "none"
    /\ observe = FALSE
    /\ aborted = FALSE
    /\ signals = 0
    /\ startCalls = [p \in Packages |-> 0]
    /\ stopCalls = [p \in Packages |-> 0]
    /\ isWatching = [p \in Packages |-> FALSE]
    /\ watchFiles = [p \in Packages |-> FALSE]
    /\ watchers = [p \in Packages |-> FALSE]

\* The rolldown Dispatcher before Dispatcher.run has constructed it.
RdIdle ==
    /\ rPhase = "loop"
    /\ rStatus = [p \in Packages |-> "IDLE"]
    /\ rIdx = 1
    /\ rAwait = NoPkg
    /\ wState = [p \in Packages |-> "none"]
    /\ rQueue = <<>>
    /\ isBuilding = FALSE
    /\ rChain = NoPkg
    /\ mainActive = TRUE

\* ------------------------------------------------ the file system explored
\* The directories: /ws holds the workspace root package, /ws/a and /ws/b a
\* member each, /ws/a/src and / hold no package.json.
Dirs == {"/", "/ws", "/ws/a", "/ws/a/src", "/ws/b"}

\* path.join(cwd, "..")
Parent(d) ==
    CASE d = "/ws/a/src" -> "/ws/a"
      [] d = "/ws/a" -> "/ws"
      [] d = "/ws/b" -> "/ws"
      [] OTHER -> "/"

\* fs.readFile(path.join(cwd, "./package.json")) finds a file.
HasManifest(d) == d \in {"/ws", "/ws/a", "/ws/b"}

\* declaration.name of the package.json in directory d.
NameOf(d) ==
    CASE d = "/ws" -> "root"
      [] d = "/ws/a" -> "a"
      [] d = "/ws/b" -> "b"
      [] OTHER -> "null"

\* declaration.workspaces is set in the package.json of directory d.
HasWorkspaces(d) == d = "/ws"

\* What fs.glob(root.declaration.workspaces, { cwd }) yields, joined to cwd: a
\* pattern such as "**" matches a package directory and its sub-directory.
GlobMatches == <<"/ws/a", "/ws/a/src", "/ws/b">>

\* The Package objects in the order of their construction.
InstIds == <<"p1", "p2", "p3", "p4", "p5", "p6">>

Null == "null"

ProcIds == 0..Len(GlobMatches)

NoProc == [pc |-> "idle", cwd |-> "/", visited |-> <<>>, result |-> "none"]

\* downstreamDependencies and upstreamDependents of a Package are empty
\* lists when it is constructed.
NoEdges == [p \in SeqToSet(InstIds) |-> <<>>]

\* No second Workspace.discover call was made.
NoResult ==
    [called |-> FALSE, exclude |-> {}, packages |-> <<>>, down |-> NoEdges, up |-> NoEdges]

\* Workspace.discover has not been called, Package.cache is empty.
WsIdle ==
    /\ wsVariant = "set"
    /\ exclude = {"build-logic"}
    /\ manifest = {}
    /\ cache = [d \in Dirs |-> "undef"]
    /\ instances = <<>>
    /\ procs = [i \in ProcIds |-> NoProc]
    /\ wsPhase = "idle"
    /\ rootCwd = "/"
    /\ currentPackage = Null
    /\ wsRoot = Null
    /\ globIdx = 1
    /\ wsPackages = <<>>
    /\ wsDown = NoEdges
    /\ wsUp = NoEdges
    /\ wsRun = "none"
    /\ wsFirst = NoResult

\* The activities: the main activity of a run, the watcher activity of a
\* target, and the constant activity.completed.
Activities == {"main", "watcher", "completed"}

\* No activity is made yet; activity.completed exists from the start:
\* { isActive: false, completed: Promise.resolve(), ensureActive }.
ActIdle ==
    /\ aKind = [a \in Activities |-> IF a = "completed" THEN "constant" ELSE "none"]
    /\ aIsActive = [a \in Activities |-> FALSE]
    /\ aCompleted = [a \in Activities |-> a = "completed"]
    /\ aBlock = [a \in Activities |-> "none"]
    /\ aStops = [a \in Activities |-> 0]
    /\ ensureLog = <<>>

RunInit ==
    /\ DbIdle
    /\ RdIdle
    /\ ActIdle
    /\ WsIdle
    /\ downstream \in Graphs
    /\ packages \in RequestLists
    /\ runState = "init"
    /\ entries = <<>>
    /\ cycleInfo = <<>>

\* Dispatcher.run up to the construction of the Dispatcher.
RunGather ==
    /\ runState = "init"
    /\ LET r == Gather(downstream, packages)
       IN  /\ runState' = IF r.thrown THEN "threw" ELSE "done"
           /\ entries' = r.entries
           /\ cycleInfo' = r.cycleInfo
    /\ UNCHANGED <<downstream, packages>>

RunNext == RunGather /\ UNCHANGED <<dbVars, rdVars, actVars, wsVars>>

SpecRun == RunInit /\ [][RunNext]_vars

\* =========================================================================
\* The debounce Dispatcher
\* =========================================================================
\* const DEBOUNCE_MS = 100;
DEBOUNCE_MS == 100

\* The step of the clock, a fifth of the window: the 20 ms between two reports
\* of the watch-mode scenario.
TICK_MS == DEBOUNCE_MS \div 5

\* The delay handed to setTimeout(this.enqueue, DEBOUNCE_MS, entry).
TimerDelay == DEBOUNCE_MS

\* Number of build targets Builder.getTargets yields for a package.
TargetsOf(p) == 1

\* entry.priority of the entry of package p.
PriorityOf(p) == entries[IndexOf(entries, p)].priority

\* The burst of reports behind a timer: how many reports (counted up to
\* BurstCap), and the ages in ms of the first, the one before the last and the
\* last of them (counted up to AgeCap).
NoBurst == [n |-> 0, first |-> 0, prev |-> 0, last |-> 0]

BurstCap == ScenarioReports + 1

AgeCap == DEBOUNCE_MS + TICK_MS

BurstOf(t) == [n |-> t.n, first |-> t.first, prev |-> t.prev, last |-> t.last]

Min(a, b) == IF a < b THEN a ELSE b
Max(a, b) == IF a > b THEN a ELSE b

Splice(q, index, e) == SubSeq(q, 1, index - 1) \o <<e>> \o SubSeq(q, index, Len(q))

\* A mutant of LowerPriority: the scan stops at an entry of equal priority too.
LowerOrEqualPriority(other, new) == other <= new

\* if (other.priority < entry.priority) break;
LowerPriority(other, new) == other < new

RECURSIVE EnqueueIndexNoCheck(_, _, _, _)

\* A mutant of EnqueueIndex: the scan without its "already queued" test.
EnqueueIndexNoCheck(q, prio, e, index) ==
    IF index > Len(q) THEN index
    ELSE IF LowerPriority(prio[q[index]], prio[e]) THEN index
         ELSE EnqueueIndexNoCheck(q, prio, e, index + 1)

RECURSIVE EnqueueIndex(_, _, _, _)

\* The scan of enqueue from position index (1-based): 0 when e is already
\* queued, else the position before the first entry of lower priority.
EnqueueIndex(q, prio, e, index) ==
    IF index > Len(q) THEN index
    ELSE IF q[index] = e THEN 0
         ELSE IF LowerPriority(prio[q[index]], prio[e]) THEN index
              ELSE EnqueueIndex(q, prio, e, index + 1)

\* The queue after the scan and the splice of enqueue.
Enqueued(q, prio, e) ==
    LET index == EnqueueIndex(q, prio, e, 1)
    IN  IF index = 0 THEN q ELSE Splice(q, index, e)

EntryPriorities == [p \in Packages |-> IF IndexOf(entries, p) = 0 THEN 0 ELSE PriorityOf(p)]

\* A mutant of ChainIdle: enqueue starts a build chain whatever isActive says.
ChainIdleAlways(active) == TRUE

\* if (!this.isActive) of enqueue.
ChainIdle(active) == ~active

\* Builder.build up to its first await: the build is reported as started.
BuildCall(p, by, burst) == [pkg |-> p, left |-> TargetsOf(p), by |-> by, burst |-> burst]

\* A mutant of NextBlocked: buildNext does not look at the signal.
NextBlockedWhenEmpty(q, stopped) == q = <<>>

\* if (!next || signal.aborted) of buildNext.
NextBlocked(q, stopped) == q = <<>> \/ stopped

\* buildNext up to its await: the values of isActive, builds and status after it.
BuildNextSync(q, bs, st, burst) ==
    IF NextBlocked(q, aborted)
    THEN [isActive |-> FALSE, builds |-> bs, status |-> st]
    ELSE [isActive |-> TRUE,
          builds |-> Append(bs, BuildCall(Head(q), "chain", burst)),
          status |-> [st EXCEPT ![Head(q)] = "BUSY"]]

\* The history unbuilt after buildNext has run on queue q with result r: the
\* build of the head has started.
UnbuiltAfter(q, r) ==
    IF r.isActive THEN [unbuilt EXCEPT ![Head(q)] = FALSE] ELSE unbuilt

\* Dispatcher.build arriving at the i-th entry of es, with bs, st, wf and wat
\* the values of builds, status, watchFiles and watchers at that moment.  The
\* loop invokes the entry's build without looking at the signal.  Past the
\* last entry build() returns and run() either returns or calls
\* Dispatcher.watch, which throws if the signal is aborted, else starts every
\* Builder's watchers.
OneShotTurn(es, i, bs, st, wf, wat) ==
    IF i <= Len(es)
    THEN /\ builds' = Append(bs, BuildCall(es[i].pkg, "oneshot", NoBurst))
         /\ invoked' = Append(invoked, es[i].pkg)
         /\ status' = [st EXCEPT ![es[i].pkg] = "BUSY"]
         /\ idx' = i + 1
         /\ phase' = "oneshot"
         /\ watchers' = wat
         /\ UNCHANGED <<isWatching, startCalls>>
    ELSE /\ builds' = bs
         /\ status' = st
         /\ idx' = i
         /\ UNCHANGED invoked
         /\ IF ~watchMode
            THEN /\ phase' = "resolved"
                 /\ watchers' = wat
                 /\ UNCHANGED <<isWatching, startCalls>>
            ELSE IF aborted
                 THEN /\ phase' = "rejected"
                      /\ watchers' = wat
                      /\ UNCHANGED <<isWatching, startCalls>>
                 ELSE /\ phase' = "watch"
                      /\ startCalls' = [p \in Packages |->
                             IF IndexOf(es, p) # 0 THEN startCalls[p] + 1 ELSE startCalls[p]]
                      /\ isWatching' = [p \in Packages |->
                             IF IndexOf(es, p) # 0 THEN TRUE ELSE isWatching[p]]
                      /\ watchers' = [p \in Packages |->
                             IF IndexOf(es, p) # 0 /\ ~isWatching[p] THEN wf[p] ELSE wat[p]]

\* Dispatcher.run of the debounce Dispatcher, up to its first await inside the
\* first entry's Builder.build: the entries are gathered and sorted, the
\* Dispatcher is constructed (the signal handlers are registered only now, so
\* signal.throwIfAborted() of Dispatcher.build passes) and the loop of
\* Dispatcher.build takes its first turn.
Run ==
    /\ runState = "init"
    /\ LET r == Gather(downstream, packages)
       IN  /\ runState' = IF r.thrown THEN "threw" ELSE "done"
           /\ entries' = r.entries
           /\ cycleInfo' = r.cycleInfo
           /\ IF r.thrown
              THEN UNCHANGED <<phase, idx, builds, invoked, status, isWatching, watchers,
                               startCalls>>
              ELSE OneShotTurn(r.entries, 1, builds, status, watchFiles, watchers)
    /\ UNCHANGED <<downstream, packages, rdVars, actVars, wsVars, watchMode, queue,
                   isActive, isDirty, unbuilt, timers, lastEnqueue, aborted, signals,
                   stopCalls, watchFiles, observe>>

\* A mutant of BuildRejects: Builder.build rethrows what a target has thrown.
BuildRejectsOnFailure(failed) == failed

\* Whether the promise of Builder.build rejects: never, the catch block
\* reports the failure and swallows it.
BuildRejects(failed) == FALSE

\* What follows the await of a Builder.build that has ended (failed: a target
\* has thrown), with bs, st, wf and wat the values of builds, status,
\* watchFiles and watchers it leaves.
\* In buildNext: queue.shift(); next.isDirty = false; this.buildNext().
\* In Dispatcher.build: the next turn of the loop.
\* A rejection would end buildNext where it is, and would reject
\* Dispatcher.build and with it run().
AfterBuild(b, failed, bs, st, wf, wat) ==
    IF BuildRejects(failed)
    THEN /\ builds' = bs
         /\ status' = st
         /\ watchers' = wat
         /\ phase' = IF b.by = "chain" THEN phase ELSE "rejected"
         /\ UNCHANGED <<queue, isDirty, unbuilt, isActive, idx, invoked, isWatching,
                         startCalls>>
    ELSE IF b.by = "chain"
         THEN LET q == IF queue = <<>> THEN queue ELSE Tail(queue)
                  r == BuildNextSync(q, bs, st, NoBurst)
              IN  /\ queue' = q
                  /\ isDirty' = [isDirty EXCEPT ![b.pkg] = FALSE]
                  /\ unbuilt' = UnbuiltAfter(q, r)
                  /\ isActive' = r.isActive
                  /\ builds' = r.builds
                  /\ status' = r.status
                  /\ watchers' = wat
                  /\ UNCHANGED <<phase, idx, invoked, isWatching, startCalls>>
         ELSE /\ OneShotTurn(entries, idx, bs, st, wf, wat)
              /\ UNCHANGED <<queue, isDirty, unbuilt, isActive>>

RemoveAt(s, i) == SubSeq(s, 1, i - 1) \o SubSeq(s, i + 1, Len(s))

\* Builder.build, one target: signal.throwIfAborted() throws into the catch
\* block (the build is reported failed and build() returns normally), else the
\* target is bundled and written, which succeeds or throws.
BuildTarget(i) ==
    /\ i \in 1..Len(builds)
    /\ builds[i].left > 0
    /\ LET b == builds[i]
       IN  \/ /\ ~aborted
              /\ builds' = [builds EXCEPT ![i].left = @ - 1]
              /\ UNCHANGED <<status, queue, isDirty, unbuilt, isActive, phase, idx, invoked,
                             isWatching, watchers, startCalls>>
           \/ AfterBuild(b, TRUE, RemoveAt(builds, i), [status EXCEPT ![b.pkg] = "FAIL"],
                         watchFiles, watchers)
    /\ UNCHANGED <<runVars, rdVars, actVars, wsVars, watchMode, timers, lastEnqueue,
                   aborted, signals, stopCalls, watchFiles, observe>>

\* Builder.build after its last target: reporter.packageBuildSucceeded and
\* setWatchFiles, which opens the watchers only while the Builder is watching.
BuildSucceed(i) ==
    /\ i \in 1..Len(builds)
    /\ builds[i].left = 0
    /\ LET b == builds[i]
           files == TargetsOf(b.pkg) > 0
           wf == [watchFiles EXCEPT ![b.pkg] = files]
           wat == [watchers EXCEPT ![b.pkg] = IF isWatching[b.pkg] THEN files ELSE @]
       IN  /\ AfterBuild(b, FALSE, RemoveAt(builds, i), [status EXCEPT ![b.pkg] = "PASS"],
                         wf, wat)
           /\ watchFiles' = wf
    /\ UNCHANGED <<runVars, rdVars, actVars, wsVars, watchMode, timers, lastEnqueue,
                   aborted, signals, stopCalls, observe>>

\* if (entry.isDirty) return;
ChangeIgnored(p) == isDirty[p]

\* The pending timers of package p, oldest first.
TimersOf(p) == SelectSeq(timers, LAMBDA t : t.pkg = p)

\* Position in timers of the newest timer of package p (0 when it has none).
NewestTimer(p) ==
    IF TimersOf(p) = <<>> THEN 0
    ELSE CHOOSE k \in 1..Len(timers) :
             timers[k].pkg = p /\ \A j \in (k + 1)..Len(timers) : timers[j].pkg # p

\* The change callback handed to startWatching, called by an open file watcher.
\* A report that is ignored is still recorded in the burst of the newest timer.
Change(p) ==
    /\ watchers[p]
    /\ unbuilt' = IF observe THEN unbuilt ELSE [unbuilt EXCEPT ![p] = TRUE]
    /\ IF ChangeIgnored(p)
       THEN /\ timers' = IF NewestTimer(p) = 0 \/ ~observe THEN timers
                         ELSE [timers EXCEPT ![NewestTimer(p)].n = Min(@ + 1, BurstCap),
                                             ![NewestTimer(p)].prev =
                                                 timers[NewestTimer(p)].last,
                                             ![NewestTimer(p)].last = 0]
            /\ UNCHANGED isDirty
       ELSE /\ isDirty' = [isDirty EXCEPT ![p] = TRUE]
            /\ timers' = Append(timers, [pkg |-> p, left |-> TimerDelay,
                                         n |-> 1, first |-> 0, prev |-> 0, last |-> 0])
    /\ UNCHANGED <<runVars, rdVars, actVars, wsVars, watchMode, phase, idx, builds, status,
                   queue, isActive, lastEnqueue, aborted, isWatching, watchFiles, watchers,
                   observe, invoked, signals, startCalls, stopCalls>>

\* The oldest timer is due (all timers have the same delay, so they fire in
\* the order they were set): enqueue(entry) runs, with the start of the build
\* chain.
TimerFire ==
    /\ timers # <<>>
    /\ Head(timers).left = 0
    /\ timers' = Tail(timers)
    /\ LET t == Head(timers)
           index == EnqueueIndex(queue, EntryPriorities, t.pkg, 1)
           q == Enqueued(queue, EntryPriorities, t.pkg)
       IN  /\ queue' = q
           /\ lastEnqueue' = IF index = 0 THEN "queued" ELSE "inserted"
           /\ IF index # 0 /\ ChainIdle(isActive)
              THEN LET r == BuildNextSync(q, builds, status, BurstOf(t))
                   IN  /\ isActive' = r.isActive
                       /\ builds' = r.builds
                       /\ status' = r.status
                       /\ unbuilt' = UnbuiltAfter(q, r)
              ELSE UNCHANGED <<isActive, builds, status, unbuilt>>
    /\ UNCHANGED <<runVars, rdVars, actVars, wsVars, watchMode, phase, idx, isDirty,
                   aborted, isWatching, watchFiles, watchers, observe, invoked, signals,
                   startCalls, stopCalls>>

\* TICK_MS pass: every timer comes closer, every burst grows older.  A pending
\* timer keeps the event loop alive, also after run() has returned.
Tick ==
    /\ timers # <<>>
    /\ timers' = [k \in 1..Len(timers) |->
           [pkg |-> timers[k].pkg,
            left |-> Max(timers[k].left - TICK_MS, 0),
            n |-> timers[k].n,
            first |-> IF observe THEN Min(timers[k].first + TICK_MS, AgeCap) ELSE 0,
            prev |-> IF observe THEN Min(timers[k].prev + TICK_MS, AgeCap) ELSE 0,
            last |-> IF observe THEN Min(timers[k].last + TICK_MS, AgeCap) ELSE 0]]
    /\ timers' # timers
    /\ UNCHANGED <<runVars, rdVars, actVars, wsVars, watchMode, phase, idx, builds, status,
                   queue, isActive, isDirty, unbuilt, lastEnqueue, aborted, isWatching, watchFiles,
                   watchers, observe, invoked, signals, startCalls, stopCalls>>

\* A mutant of AbortFires: every call of controller.abort() dispatches the
\* abort event.
AbortFiresAlways(already) == TRUE

\* controller.abort() acts only on a signal that is not aborted yet: it sets
\* signal.aborted and dispatches the abort event.
AbortFires(already) == ~already

\* watch() has added its abort listener: it does so right before it calls
\* startWatching on every entry's Builder.
ListenerAdded == \E p \in Packages : startCalls[p] > 0

\* SIGINT or SIGTERM: onAbort calls controller.abort(); the listener that
\* watch() added calls stopWatching on every entry's Builder and resolves.
\* stopWatching returns at once on a Builder that is not watching, else it
\* closes and clears the watchers and empties watchFiles.
Abort ==
    /\ runState = "done"
    /\ signals < MaxSignals
    /\ signals' = signals + 1
    /\ aborted' = TRUE
    /\ IF AbortFires(aborted) /\ ListenerAdded
       THEN /\ phase' = "resolved"
            /\ stopCalls' = [p \in Packages |->
                   IF IndexOf(entries, p) # 0 THEN stopCalls[p] + 1 ELSE stopCalls[p]]
            /\ isWatching' = [p \in Packages |->
                   IF IndexOf(entries, p) # 0 THEN FALSE ELSE isWatching[p]]
            /\ watchers' = [p \in Packages |->
                   IF IndexOf(entries, p) # 0 /\ isWatching[p] THEN FALSE ELSE watchers[p]]
            /\ watchFiles' = [p \in Packages |->
                   IF IndexOf(entries, p) # 0 /\ isWatching[p] THEN FALSE ELSE watchFiles[p]]
       ELSE UNCHANGED <<phase, stopCalls, isWatching, watchers, watchFiles>>
    /\ UNCHANGED <<runVars, rdVars, actVars, wsVars, watchMode, idx, builds, status, queue,
                   isActive, isDirty, unbuilt, timers, lastEnqueue, observe, invoked,
                   startCalls>>

\* The runs of the debounce Dispatcher that are explored: the requested
\* packages with their dependency graph, and whether --watch is given.
\* A depends on C.  Requested as [A], C gets priority 1 and A priority 0.
\* Requested as [A, B], B gets priority 1 as well: the entries are C, B, A.
WatchGraph == [p \in Packages |-> IF p = "A" THEN <<"C">> ELSE <<>>]

WatchInputs ==
    {[g |-> WatchGraph, req |-> <<"A">>], [g |-> WatchGraph, req |-> <<"A", "B">>]}

ObservedInputs == {[g |-> WatchGraph, req |-> <<"A">>]}

DbInit(inputs) ==
    /\ \E in \in inputs : downstream = in.g /\ packages = in.req
    /\ runState = "init"
    /\ entries = <<>>
    /\ cycleInfo = <<>>
    /\ watchMode \in BOOLEAN
    /\ phase = "oneshot"
    /\ idx = 1
    /\ builds = <<>>
    /\ invoked = <<>>
    /\ status = [p \in Packages |-> "IDLE"]
    /\ queue = <<>>
    /\ isActive = FALSE
    /\ isDirty = [p \in Packages |-> FALSE]
    /\ unbuilt = [p \in Packages |-> FALSE]
    /\ timers = <<>>
    /\ lastEnqueue = "none"
    /\ aborted = FALSE
    /\ signals = 0
    /\ startCalls = [p \in Packages |-> 0]
    /\ stopCalls = [p \in Packages |-> 0]
    /\ isWatching = [p \in Packages |-> FALSE]
    /\ watchFiles = [p \in Packages |-> FALSE]
    /\ watchers = [p \in Packages |-> FALSE]

Init == DbInit(WatchInputs) /\ observe = FALSE /\ RdIdle /\ ActIdle /\ WsIdle

\* The same runs with the bursts behind the timers recorded.
InitObserved == DbInit(ObservedInputs) /\ observe = TRUE /\ RdIdle /\ ActIdle /\ WsIdle

Next ==
    \/ Run
    \/ \E i \in 1..Len(builds) : BuildTarget(i)
    \/ \E i \in 1..Len(builds) : BuildSucceed(i)
    \/ \E p \in Packages : Change(p)
    \/ TimerFire
    \/ Tick
    \/ Abort

Spec == Init /\ [][Next]_vars

SpecObserved == InitObserved /\ [][Next]_vars

\* =========================================================================
\* The rolldown Dispatcher in watch mode
\* =========================================================================
\* triggerNext: the values of isBuilding, rChain and wState after it.  The call
\* of next.handle.build() completes the suspension of the target's restart
\* handler, so the target's watcher goes on to build.
TriggerNext(q, building, chain, ws) ==
    IF building \/ ~mainActive \/ q = <<>>
    THEN [isBuilding |-> building, rChain |-> chain, wState |-> ws]
    ELSE [isBuilding |-> TRUE, rChain |-> Head(q),
          wState |-> [ws EXCEPT ![Head(q)] = IF @ = "suspended" THEN "building" ELSE @]]

\* Dispatcher.watch arriving at the i-th target of es, with ws the watchers'
\* states at that moment: past the last target watch() awaits
\* Promise.allSettled(watchers); else main.ensureActive() throws or
\* target.builder.watch(...) starts the target's watcher, whose initial build
\* begins, and the loop awaits result.currentBuild.
WatchTurn(es, i, ws) ==
    IF i > Len(es)
    THEN [rPhase |-> "settling", rIdx |-> i, rAwait |-> NoPkg, wState |-> ws]
    ELSE IF ~mainActive
         THEN [rPhase |-> "rejected", rIdx |-> i, rAwait |-> NoPkg, wState |-> ws]
         ELSE [rPhase |-> "loop", rIdx |-> i + 1, rAwait |-> es[i].pkg,
               wState |-> [ws EXCEPT ![es[i].pkg] = "building"]]

\* Dispatcher.build arriving at the i-th target of es, with st the reporter's
\* statuses at that moment: past the last target build() returns; else
\* main.ensureActive() throws or target.builder.build(main) is invoked, which
\* reports the package as started.
BuildTurn(es, i, st) ==
    IF i > Len(es)
    THEN [rPhase |-> "resolved", rIdx |-> i, rAwait |-> NoPkg, rStatus |-> st]
    ELSE IF ~mainActive
         THEN [rPhase |-> "rejected", rIdx |-> i, rAwait |-> NoPkg, rStatus |-> st]
         ELSE [rPhase |-> "build", rIdx |-> i + 1, rAwait |-> es[i].pkg,
               rStatus |-> [st EXCEPT ![es[i].pkg] = "BUSY"]]

\* The reporter's statuses after a step that takes the watchers from ws to
\* ws2: a watcher that begins to build emits START (packageBuildStarted).
WatchStatus(st, ws, ws2) ==
    [p \in Packages |-> IF ws2[p] = "building" /\ ws[p] # "building" THEN "BUSY" ELSE st[p]]

\* Dispatcher.run of the rolldown Dispatcher: the entries are gathered, the
\* targets resolved and sorted, the Dispatcher is constructed with its main
\* activity (the signal handlers are registered only now) and the loop of
\* Dispatcher.watch or of Dispatcher.build takes its first turn.
RRun ==
    /\ runState = "init"
    /\ LET r == Gather(downstream, packages)
           w == WatchTurn(r.entries, 1, wState)
           b == BuildTurn(r.entries, 1, rStatus)
       IN  /\ runState' = IF r.thrown THEN "threw" ELSE "done"
           /\ entries' = r.entries
           /\ cycleInfo' = r.cycleInfo
           /\ IF r.thrown
              THEN UNCHANGED <<rPhase, rIdx, rAwait, wState, rStatus>>
              ELSE IF watchMode
                   THEN /\ rPhase' = w.rPhase
                        /\ rIdx' = w.rIdx
                        /\ rAwait' = w.rAwait
                        /\ wState' = w.wState
                        /\ rStatus' = WatchStatus(rStatus, wState, w.wState)
                   ELSE /\ rPhase' = b.rPhase
                        /\ rIdx' = b.rIdx
                        /\ rAwait' = b.rAwait
                        /\ rStatus' = b.rStatus
                        /\ UNCHANGED wState
    /\ UNCHANGED <<downstream, packages, dbVars, actVars, wsVars, rQueue, isBuilding,
                   rChain, mainActive>>

\* Builder.build of the target that Dispatcher.build awaits ends: it reports
\* the package as succeeded and returns, and the loop takes its next turn; or
\* a step of it (main.ensureActive() included) throws, it reports the package
\* as failed and rethrows, which rejects Dispatcher.build and run().
RBuildOneEnd(ok) ==
    /\ rPhase = "build"
    /\ rAwait # NoPkg
    /\ LET b == IF ok
                THEN BuildTurn(entries, rIdx, [rStatus EXCEPT ![rAwait] = "PASS"])
                ELSE [rPhase |-> "rejected", rIdx |-> rIdx, rAwait |-> NoPkg,
                      rStatus |-> [rStatus EXCEPT ![rAwait] = "FAIL"]]
       IN  /\ rPhase' = b.rPhase
           /\ rIdx' = b.rIdx
           /\ rAwait' = b.rAwait
           /\ rStatus' = b.rStatus
    /\ UNCHANGED <<runVars, dbVars, actVars, wsVars, wState, rQueue, isBuilding, rChain,
                   mainActive>>

\* A watcher's build ends with the event END (ok) or ERROR: the package is
\* reported as succeeded or failed and currentBuild is completed or failed.
\* The loop of Dispatcher.watch awaiting it takes its next turn, or watch()
\* throws; the promise chain of triggerNext awaiting it runs its finally block:
\* queue.shift(); isBuilding = false; process.nextTick(this.triggerNext).
\* The continuations and the nextTick callback run before the event loop takes
\* up any other event, so they are part of this step.
RBuildEnd(t, ok) ==
    /\ wState[t] = "building"
    /\ LET ws == [wState EXCEPT ![t] = "idle"]
           w == IF rAwait # t
                THEN [rPhase |-> rPhase, rIdx |-> rIdx, rAwait |-> rAwait, wState |-> ws]
                ELSE IF ok
                     THEN WatchTurn(entries, rIdx, ws)
                     ELSE [rPhase |-> "rejected", rIdx |-> rIdx, rAwait |-> NoPkg,
                           wState |-> ws]
           q == IF rChain = t /\ rQueue # <<>> THEN Tail(rQueue) ELSE rQueue
           r == IF rChain = t
                THEN TriggerNext(q, FALSE, NoPkg, w.wState)
                ELSE [isBuilding |-> isBuilding, rChain |-> rChain, wState |-> w.wState]
       IN  /\ rPhase' = w.rPhase
           /\ rIdx' = w.rIdx
           /\ rAwait' = w.rAwait
           /\ rQueue' = q
           /\ isBuilding' = r.isBuilding
           /\ rChain' = r.rChain
           /\ wState' = r.wState
           /\ rStatus' = WatchStatus([rStatus EXCEPT ![t] = IF ok THEN "PASS" ELSE "FAIL"],
                                     ws, r.wState)
    /\ UNCHANGED <<runVars, dbVars, actVars, wsVars, mainActive>>

\* An idle watcher sees a file change and emits "restart": the handler calls
\* onBuildPending, that is enqueue(target, handle), and returns the suspension
\* the watcher waits for.
RRestart(t) ==
    /\ wState[t] = "idle"
    /\ LET index == EnqueueIndex(rQueue, EntryPriorities, t, 1)
           q == Enqueued(rQueue, EntryPriorities, t)
           r == IF index = 0
                THEN [isBuilding |-> isBuilding, rChain |-> rChain,
                      wState |-> [wState EXCEPT ![t] = "suspended"]]
                ELSE TriggerNext(q, isBuilding, rChain, [wState EXCEPT ![t] = "suspended"])
       IN  /\ rQueue' = q
           /\ isBuilding' = r.isBuilding
           /\ rChain' = r.rChain
           /\ wState' = r.wState
           /\ rStatus' = WatchStatus(rStatus, wState, r.wState)
    /\ UNCHANGED <<runVars, dbVars, actVars, wsVars, rPhase, rIdx, rAwait, mainActive>>

\* SIGINT or SIGTERM: onStop calls stop(), main becomes inactive.
RStop ==
    /\ runState = "done"
    /\ mainActive
    /\ mainActive' = FALSE
    /\ UNCHANGED <<runVars, dbVars, actVars, wsVars, rPhase, rStatus, rIdx, rAwait, wState,
                   rQueue, isBuilding, rChain>>

\* The watcher activity of a target: after main.completed, watcher.close().  An
\* idle or suspended watcher is closed; one that builds ends its build first.
RClose(t) ==
    /\ ~mainActive
    /\ wState[t] \in {"idle", "suspended"}
    /\ wState' = [wState EXCEPT ![t] = "closed"]
    /\ UNCHANGED <<runVars, dbVars, actVars, wsVars, rPhase, rStatus, rIdx, rAwait, rQueue,
                   isBuilding, rChain, mainActive>>

\* Promise.allSettled(watchers) settles once every started watcher is closed.
RSettle ==
    /\ rPhase = "settling"
    /\ \A p \in Packages : wState[p] \in {"none", "closed"}
    /\ rPhase' = "resolved"
    /\ UNCHANGED <<runVars, dbVars, actVars, wsVars, rStatus, rIdx, rAwait, wState, rQueue,
                   isBuilding, rChain, mainActive>>

RdInit == DbInit(WatchInputs) /\ observe = FALSE /\ RdIdle /\ ActIdle /\ WsIdle

RdNext ==
    \/ RRun
    \/ \E ok \in BOOLEAN : RBuildOneEnd(ok)
    \/ \E t \in Packages, ok \in BOOLEAN : RBuildEnd(t, ok)
    \/ \E t \in Packages : RRestart(t)
    \/ RStop
    \/ \E t \in Packages : RClose(t)
    \/ RSettle

SpecRolldown == RdInit /\ [][RdNext]_vars

\* =========================================================================
\* activity(block), activity.completed and ensureActive
\* =========================================================================
\* activity(block): isActive starts true, completed is a pending promise, and
\* block(stop) runs: it returns nothing (the block of the main activity, which
\* hands stop to the signal handlers) or a promise (the async block of a
\* watcher activity), on which then(stop, stop) is registered.
Activity(a, kind) ==
    /\ aKind[a] = "none"
    /\ aKind' = [aKind EXCEPT ![a] = kind]
    /\ aIsActive' = [aIsActive EXCEPT ![a] = TRUE]
    /\ aCompleted' = [aCompleted EXCEPT ![a] = FALSE]
    /\ aBlock' = [aBlock EXCEPT ![a] = IF kind = "promise" THEN "pending" ELSE "none"]
    /\ UNCHANGED <<runVars, dbVars, rdVars, wsVars, aStops, ensureLog>>

\* stop(): isActive = false; resolve().  Resolving a resolved promise does
\* nothing.
Stop(a) ==
    /\ aIsActive' = [aIsActive EXCEPT ![a] = FALSE]
    /\ aCompleted' = [aCompleted EXCEPT ![a] = TRUE]

\* A holder of stop (a signal handler) calls it.
StopCall(a) ==
    /\ aKind[a] \in {"void", "promise"}
    /\ aStops[a] < MaxStops
    /\ aStops' = [aStops EXCEPT ![a] = @ + 1]
    /\ Stop(a)
    /\ UNCHANGED <<runVars, dbVars, rdVars, wsVars, aKind, aBlock, ensureLog>>

\* A mutant of StopOnSettle: block(stop)?.then(stop), a rejection is dropped.
StopOnFulfilOnly(ok) == ok

\* block(stop)?.then(stop, stop): stop runs when the promise is fulfilled and
\* when it is rejected.
StopOnSettle(ok) == TRUE

\* The promise that block returned settles; the callback registered by then
\* runs before the event loop takes up any other event.
BlockSettle(a, ok) ==
    /\ aBlock[a] = "pending"
    /\ aBlock' = [aBlock EXCEPT ![a] = IF ok THEN "fulfilled" ELSE "rejected"]
    /\ IF StopOnSettle(ok) THEN Stop(a) ELSE UNCHANGED <<aIsActive, aCompleted>>
    /\ UNCHANGED <<runVars, dbVars, rdVars, wsVars, aKind, aStops, ensureLog>>

\* A mutant of EnsureThrows: ensureActive never throws.
EnsureThrowsNever(active) == FALSE

\* if (!this.isActive) throw new AbortError("the activity was stopped");
EnsureThrows(active) == ~active

\* a.ensureActive() is called.
EnsureActive(a) ==
    /\ aKind[a] # "none"
    /\ Len(ensureLog) < MaxEnsure
    /\ ensureLog' = Append(ensureLog, [act |-> a, threw |-> EnsureThrows(aIsActive[a])])
    /\ UNCHANGED <<runVars, dbVars, rdVars, wsVars, aKind, aIsActive, aCompleted, aBlock,
                   aStops>>

\* No run of a Dispatcher is under way.
ActInit ==
    /\ DbIdle
    /\ RdIdle
    /\ ActIdle
    /\ WsIdle
    /\ downstream = WatchGraph
    /\ packages = <<"A">>
    /\ runState = "init"
    /\ entries = <<>>
    /\ cycleInfo = <<>>

ActNext ==
    \/ \E a \in Activities, kind \in {"void", "promise"} : Activity(a, kind)
    \/ \E a \in Activities : StopCall(a)
    \/ \E a \in Activities, ok \in BOOLEAN : BlockSettle(a, ok)
    \/ \E a \in Activities : EnsureActive(a)

SpecActivity == ActInit /\ [][ActNext]_vars

\* ------------------------------------------------ Package.discover
\* The dependency kinds of a package.json that Workspace.discover follows, in
\* the order of DEFAULT_FOLLOW_DEPS.
FollowDeps == <<"dependencies", "devDependencies", "peerDependencies">>

\* DEFAULT_REF_FILTER: ref => ref.startsWith("workspace:"); a ref is modelled
\* by its protocol.
RefFilter(ref) == ref = "workspace:"

\* The names that the package.json of /ws/a refers to; the other
\* package.json files hold no dependencies.
DepNames == {"a", "b"}

\* The entries a package.json may hold under the followed kinds.
DepEntries ==
    [from : {"a"}, kind : SeqToSet(FollowDeps), to : DepNames,
     ref : {"workspace:", "npm:"}]

\* An object holds one value per key: entries d and f share the package, the
\* kind and the name.
SameKey(d, f) == d.from = f.from /\ d.kind = f.kind /\ d.to = f.to

RECURSIVE ManifestsOf(_)

\* The manifests of at most n entries, no two under the same key.
ManifestsOf(n) ==
    IF n = 0 THEN {{}}
    ELSE LET fewer == ManifestsOf(n - 1)
         IN  fewer \cup
             UNION {{m \cup {e} : e \in {d \in DepEntries : \A f \in m : ~SameKey(d, f)}} :
                       m \in fewer}

Manifests == ManifestsOf(MaxDeps)

\* The directory of the Package id among the Packages made so far.
DirOf(insts, id) == insts[CHOOSE i \in 1..Len(InstIds) : InstIds[i] = id]

\* finally { visitedDirs.forEach(dir => Package.cache.set(dir, cacheEntry)) }
Finally(c, visited, cacheEntry) ==
    [d \in Dirs |-> IF d \in SeqToSet(visited) THEN cacheEntry ELSE c[d]]

\* The head of Package.discover's loop for directory d: a cached value is
\* returned (cacheEntry is still null when the finally block runs), otherwise
\* d is pushed to visitedDirs and package.json is read.
Arrive(pr, c, d) ==
    IF c[d] # "undef"
    THEN [proc |-> [pr EXCEPT !.pc = "done", !.result = c[d]],
          cache |-> Finally(c, pr.visited, Null)]
    ELSE [proc |-> [pr EXCEPT !.pc = "read", !.cwd = d, !.visited = Append(@, d)],
          cache |-> c]

\* fs.readFile settles: with the file's text, or with ENOENT and the walk goes
\* to the parent directory or ends with null.
ReadDone(pr, c) ==
    IF HasManifest(pr.cwd) THEN [proc |-> [pr EXCEPT !.pc = "config"], cache |-> c]
    ELSE IF Parent(pr.cwd) = pr.cwd
         THEN [proc |-> [pr EXCEPT !.pc = "done", !.result = Null],
               cache |-> Finally(c, pr.visited, Null)]
         ELSE Arrive(pr, c, Parent(pr.cwd))

\* The glob for the build config settles: the Package is made and cached for
\* every visited directory.
ConfigDone(pr, c, insts) ==
    LET id == InstIds[Len(insts) + 1]
    IN  [proc |-> [pr EXCEPT !.pc = "done", !.result = id],
         cache |-> Finally(c, pr.visited, id),
         instances |-> Append(insts, pr.cwd)]

\* ------------------------------------------------ Workspace.discover
\* The loop that finds the root package goes on after Package.discover
\* returned res.
RootFound(res, insts, ps) ==
    LET cp == IF currentPackage = Null THEN res ELSE currentPackage
    IN  IF res = Null
        THEN /\ wsPhase' = "none"
             /\ procs' = ps
             /\ UNCHANGED <<rootCwd, currentPackage, wsRoot, wsPackages>>
        ELSE IF HasWorkspaces(DirOf(insts, res))
        THEN /\ wsPhase' = "glob"
             /\ wsRoot' = res
             /\ currentPackage' = cp
             /\ wsPackages' = <<res>>
             /\ rootCwd' = DirOf(insts, res)
             /\ procs' = ps
        ELSE LET parentDir == Parent(DirOf(insts, res))
             IN  IF parentDir = rootCwd
                 THEN /\ wsPhase' = "none"
                      /\ currentPackage' = cp
                      /\ procs' = ps
                      /\ UNCHANGED <<rootCwd, wsRoot, wsPackages>>
                 ELSE /\ rootCwd' = parentDir
                      /\ currentPackage' = cp
                      /\ procs' = [ps EXCEPT ![0] = [NoProc EXCEPT !.pc = "start",
                                                                   !.cwd = parentDir]]
                      /\ UNCHANGED <<wsPhase, wsRoot, wsPackages>>

\* packages.add(pkg) on the Set of part_012, packages.push(pkg) on the array of
\* rollup-workspace's Workspace.ts.
AddPackage(pk, pkg) ==
    IF wsVariant = "set" /\ pkg \in SeqToSet(pk) THEN pk ELSE Append(pk, pkg)

\* if (pkg && !exclude.includes(pkg.declaration.name)) packages.add(pkg)
GlobFound(res, insts, ps) ==
    /\ procs' = ps
    /\ wsPackages' = IF res # Null /\ NameOf(DirOf(insts, res)) \notin exclude
                     THEN AddPackage(wsPackages, res)
                     ELSE wsPackages
    /\ UNCHANGED <<wsPhase, rootCwd, currentPackage, wsRoot>>

\* A step r of the Package.discover call i, and what its caller does when the
\* call returned.
Settle(i, r, insts) ==
    /\ cache' = r.cache
    /\ instances' = insts
    /\ IF r.proc.pc # "done"
       THEN /\ procs' = [procs EXCEPT ![i] = r.proc]
            /\ UNCHANGED <<wsPhase, rootCwd, currentPackage, wsRoot, wsPackages>>
       ELSE IF i = 0
            THEN RootFound(r.proc.result, insts, [procs EXCEPT ![i] = r.proc])
            ELSE GlobFound(r.proc.result, insts, [procs EXCEPT ![i] = r.proc])
    /\ UNCHANGED <<runVars, dbVars, rdVars, actVars, wsVariant, exclude, manifest,
                   globIdx, wsDown, wsUp, wsRun, wsFirst>>

\* Package.discover reaches its loop: the cache is checked.
PkgStart(i) ==
    /\ procs[i].pc = "start"
    /\ Settle(i, Arrive(procs[i], cache, procs[i].cwd), instances)

\* The read of package.json settles.
PkgRead(i) ==
    /\ procs[i].pc = "read"
    /\ Settle(i, ReadDone(procs[i], cache), instances)

\* The search for the build config settles and the Package is made.
PkgConfig(i) ==
    /\ procs[i].pc = "config"
    /\ LET r == ConfigDone(procs[i], cache, instances)
       IN  Settle(i, r, r.instances)

\* fs.glob yields the next match and its task calls Package.discover, or the
\* iterator ends and Promise.all(pending) is awaited.
GlobNext ==
    /\ wsPhase = "glob"
    /\ IF globIdx <= Len(GlobMatches)
       THEN /\ procs' = [procs EXCEPT ![globIdx] =
                            [NoProc EXCEPT !.pc = "start", !.cwd = GlobMatches[globIdx]]]
            /\ globIdx' = globIdx + 1
            /\ UNCHANGED wsPhase
       ELSE /\ wsPhase' = "await"
            /\ UNCHANGED <<procs, globIdx>>
    /\ UNCHANGED <<runVars, dbVars, rdVars, actVars, wsVariant, exclude, manifest, cache,
                   instances, rootCwd, currentPackage, wsRoot, wsPackages, wsDown, wsUp,
                   wsRun, wsFirst>>

\* upstream.declaration[depKind]?.[downstream.declaration.name] passes refFilter.
HasRef(m, insts, up, dn, depKind) ==
    \E e \in m :
        /\ e.from = NameOf(DirOf(insts, up))
        /\ e.to = NameOf(DirOf(insts, dn))
        /\ e.kind = depKind
        /\ RefFilter(e.ref)

\* A mutant of PushUp: the upstream package is not recorded.
PushUpNever(list, pkg) == list

\* downstream.upstreamDependents.push(upstream)
PushUp(list, pkg) == Append(list, pkg)

\* upstream.downstreamDependencies.push(downstream)
PushDown(list, pkg) == Append(list, pkg)

RECURSIVE Pushes(_, _, _, _, _)

\* The first n turns of packages.forEach(upstream => packages.forEach(
\* downstream => followDeps.forEach(depKind => ...))): the lists they leave in
\* downstreamDependencies (down) and upstreamDependents (up) of each Package,
\* which held the lists g0 before.
Pushes(m, insts, pk, n, g0) ==
    IF n = 0 THEN g0
    ELSE LET L == Len(pk)
             K == Len(FollowDeps)
             upstr == pk[((n - 1) \div (L * K)) + 1]
             downstr == pk[(((n - 1) \div K) % L) + 1]
             depKind == FollowDeps[((n - 1) % K) + 1]
         IN  IF HasRef(m, insts, upstr, downstr, depKind)
             THEN [Pushes(m, insts, pk, n - 1, g0)
                       EXCEPT !.down[upstr] = PushDown(@, downstr),
                              !.up[downstr] = PushUp(@, upstr)]
             ELSE Pushes(m, insts, pk, n - 1, g0)

\* Every pending task is done: the dependency graph is built and the
\* Workspace is returned.
BuildGraph ==
    /\ wsPhase = "await"
    /\ \A i \in 1..Len(GlobMatches) : procs[i].pc = "done"
    /\ \E g \in {Pushes(manifest, instances, wsPackages,
                         Len(wsPackages) * Len(wsPackages) * Len(FollowDeps),
                         [down |-> wsDown, up |-> wsUp])} :
           /\ wsDown' = g.down
           /\ wsUp' = g.up
    /\ wsPhase' = "done"
    /\ UNCHANGED <<runVars, dbVars, rdVars, actVars, wsVariant, exclude, manifest, cache,
                   instances, procs, rootCwd, currentPackage, wsRoot, globIdx, wsPackages,
                   wsRun, wsFirst>>

\* The runner hands workspace.packages to Dispatcher.run when the start
\* package is the workspace root, otherwise the start package alone.
RunPackages ==
    IF currentPackage = wsRoot THEN wsPackages ELSE <<currentPackage>>

\* Dispatcher.run gathers its entries from the discovered packages.
RunDiscovered ==
    /\ wsPhase = "done"
    /\ wsRun = "none"
    /\ wsRun' = IF Gather(wsDown, RunPackages).thrown THEN "threw" ELSE "done"
    /\ UNCHANGED <<runVars, dbVars, rdVars, actVars, wsVariant, exclude, manifest, cache,
                   instances, procs, wsPhase, rootCwd, currentPackage, wsRoot, globIdx,
                   wsPackages, wsDown, wsUp, wsFirst>>

\* The directories Workspace.discover may be started in.
StartDirs == {"/", "/ws", "/ws/a"}

\* The exclude lists tried: the default, a member, the root package.
Excludes == {{"build-logic"}, {"b"}, {"root"}}

\* Workspace.discover was called with an empty Package.cache.
WsInit ==
    /\ DbIdle
    /\ RdIdle
    /\ ActIdle
    /\ downstream = WatchGraph
    /\ packages = <<"A">>
    /\ runState = "init"
    /\ entries = <<>>
    /\ cycleInfo = <<>>
    /\ wsVariant \in {"set", "array"}
    /\ exclude \in Excludes
    /\ manifest \in Manifests
    /\ cache = [d \in Dirs |-> "undef"]
    /\ instances = <<>>
    /\ rootCwd \in StartDirs
    /\ procs = [i \in ProcIds |->
                   IF i = 0 THEN [NoProc EXCEPT !.pc = "start", !.cwd = rootCwd]
                   ELSE NoProc]
    /\ wsPhase = "root"
    /\ currentPackage = Null
    /\ wsRoot = Null
    /\ globIdx = 1
    /\ wsPackages = <<>>
    /\ wsDown = NoEdges
    /\ wsUp = NoEdges
    /\ wsRun = "none"
    /\ wsFirst = NoResult

WsNext ==
    \/ \E i \in ProcIds : PkgStart(i)
    \/ \E i \in ProcIds : PkgRead(i)
    \/ \E i \in ProcIds : PkgConfig(i)
    \/ GlobNext
    \/ BuildGraph
    \/ RunDiscovered

SpecDiscover == WsInit /\ [][WsNext]_vars

\* Workspace.discover is called a second time in the same process, in the
\* directory of the workspace root and with any exclusion list: Package.cache
\* and the Package objects of the first call are still there.
DiscoverAgain ==
    /\ wsPhase = "done"
    /\ ~wsFirst.called
    /\ wsFirst' = [called |-> TRUE, exclude |-> exclude, packages |-> wsPackages,
                   down |-> wsDown, up |-> wsUp]
    /\ exclude' \in Excludes
    /\ wsPhase' = "root"
    /\ procs' = [i \in ProcIds |->
                    IF i = 0 THEN [NoProc EXCEPT !.pc = "start", !.cwd = rootCwd]
                    ELSE NoProc]
    /\ currentPackage' = Null
    /\ wsRoot' = Null
    /\ globIdx' = 1
    /\ wsPackages' = <<>>
    /\ UNCHANGED <<runVars, dbVars, rdVars, actVars, wsVariant, manifest, cache, instances,
                   rootCwd, wsDown, wsUp, wsRun>>

RediscoverNext == WsNext \/ DiscoverAgain

\* The first call is made in the directory of the workspace root, by the
\* Workspace.discover that collects the packages in a Set.
RediscoverInit ==
    /\ WsInit
    /\ wsVariant = "set"
    /\ rootCwd = "/ws"
    /\ manifest \in ManifestsOf(MaxDepsAgain)

SpecRediscover == RediscoverInit /\ [][RediscoverNext]_vars

\* ------------------------------------------------ properties of Dispatcher.run
RECURSIVE Closure(_, _)

\* The packages reachable from S through downstreamDependencies, S included.
Closure(g, S) ==
    LET n == S \cup UNION {SeqToSet(g[p]) : p \in S}
    IN  IF n = S THEN S ELSE Closure(g, n)

\* There is a path of at least one edge from a to b.
HasPath(g, a, b) == b \in Closure(g, SeqToSet(g[a]))

CycleReachable(g, pkgs) == \E p \in Closure(g, SeqToSet(pkgs)) : HasPath(g, p, p)

SchedulePkgs == [i \in 1..Len(entries) |-> entries[i].pkg]

\* The chain of the scenario: A has no dependencies, B depends on A, C on B.
ChainGraph ==
    /\ downstream["A"] = <<>>
    /\ downstream["B"] = <<"A">>
    /\ downstream["C"] = <<"B">>

\* C1: in the schedule of an acyclic graph every dependency stands no later
\* than its dependent (for an edge A -> B, B's index <= A's index), and the
\* chain A, B <- A, C <- B requested as [A, B, C] is scheduled as [A, B, C].
C1_TopologicalOrder ==
    runState = "done" =>
        /\ \A i, j \in 1..Len(entries) :
              entries[j].pkg \in SeqToSet(downstream[entries[i].pkg]) => j <= i
        /\ (ChainGraph /\ packages = <<"A", "B", "C">>) => SchedulePkgs = <<"A", "B", "C">>

\* The graph {A -> B, B -> A} and nothing else.
TwoCycleGraph ==
    /\ downstream["A"] = <<"B">>
    /\ downstream["B"] = <<"A">>
    /\ downstream["C"] = <<>>
    /\ downstream["D"] = <<>>

\* C4: Dispatcher.run throws the dependency-cycle error exactly when a cycle is
\* reachable from a requested package, never on an acyclic reachable graph
\* (diamonds included), and for {A -> B, B -> A} the message names A and B.
C4_CycleDetection ==
    runState # "init" =>
        /\ (runState = "threw") <=> CycleReachable(downstream, packages)
        /\ (TwoCycleGraph /\ runState = "threw") => {"A", "B"} \subseteq SeqToSet(cycleInfo)

\* A diamond below A: D is reached through B and through C.
DiamondGraph ==
    /\ downstream["A"] = <<"B", "C">>
    /\ downstream["B"] = <<"D">>
    /\ downstream["C"] = <<"D">>
    /\ downstream["D"] = <<>>

\* The two-package cycle has been run and has thrown its error.
C4_Witness ==
    TwoCycleGraph /\ packages = <<"A">> /\ runState = "threw" /\ cycleInfo = <<"A", "B">>

\* A diamond has been scheduled without an error.
C4_WitnessDiamond ==
    DiamondGraph /\ packages = <<"A">> /\ runState = "done" /\ Len(entries) = 4

\* C6: two requested packages without a dependency path between them keep
\* their request order in the schedule; [X, Y] independent gives [X, Y].
C6_StableTieBreak ==
    runState = "done" =>
        \A i, j \in 1..Len(packages) :
            (/\ i < j
             /\ ~HasPath(downstream, packages[i], packages[j])
             /\ ~HasPath(downstream, packages[j], packages[i]))
            => IndexOf(entries, packages[i]) < IndexOf(entries, packages[j])

\* ------------------------------------------- properties of the debounce Dispatcher
\* What the code's scheduling guarantees: the event loop runs every due
\* timer and every continuation, time passes, and every build terminates.
\* File changes and stop signals are the environment's and may never come.
Fairness ==
    /\ WF_vars(Run)
    /\ WF_vars(\E i \in 1..Len(builds) : BuildTarget(i))
    /\ WF_vars(\E i \in 1..Len(builds) : BuildSucceed(i))
    /\ WF_vars(TimerFire)
    /\ WF_vars(Tick)

FairSpec == Spec /\ Fairness

InFlight(p) == \E i \in 1..Len(builds) : builds[i].pkg = p

\* C2: at most one Builder.build call is in flight at any instant, in the
\* one-shot pass and in watch mode, whatever the interleaving.
C2_OneBuildAtATime == Len(builds) <= 1

\* A build of the chain is running while a second entry waits in the queue.
C2_Witness ==
    /\ Len(builds) = 1
    /\ builds[1].by = "chain"
    /\ Len(queue) = 2
    /\ isActive

\* C5: absent cancellation, every unit whose change report was accepted is
\* eventually built and its isDirty flag cleared again (only the end of the
\* unit's own build clears the flag).  Until
\* then the unit is on its way to a build: its timer is pending, or it is
\* queued, or it is being built (its further reports are ignored, so nothing
\* else would ever bring it there).
C5_NoStarvation ==
    /\ [](\A p \in Packages :
            (isDirty[p] /\ ~aborted) =>
                \/ TimersOf(p) # <<>>
                \/ p \in SeqToSet(queue)
                \/ InFlight(p))
    /\ \A p \in Packages : isDirty[p] ~> (aborted \/ ~isDirty[p])

\* C7: the queue never holds an entry twice, and an enqueue call for an entry
\* that is already queued leaves the queue as it is.
C7_IdempotentEnqueue ==
    /\ [](\A i, j \in 1..Len(queue) : i # j => queue[i] # queue[j])
    /\ [][(/\ timers # <<>>
           /\ timers' = Tail(timers)
           /\ Head(timers).pkg \in SeqToSet(queue)) => queue' = queue]_vars

\* An enqueue call has found its entry in the queue and has returned.
C7_Witness == lastEnqueue = "queued" /\ queue # <<>>

\* C8: the reports of one unit up to the firing of its debounce timer start
\* one timer, so a unit never has two timers pending.
C8_OneTimerPerUnit == \A p \in Packages : Len(TimersOf(p)) <= 1

\* The watch-mode scenario: a burst of exactly three reports 20 ms apart.
ScenarioBurst(b) ==
    /\ b.n = ScenarioReports
    /\ b.first < AgeCap
    /\ b.prev = b.first - TICK_MS
    /\ b.last = b.prev - TICK_MS

\* C9: the rebuild that the three reports of the scenario schedule starts no
\* earlier than 100 ms after the last of them.
C9_AfterLastReport ==
    \A i \in 1..Len(builds) :
        ScenarioBurst(builds[i].burst) => builds[i].burst.last >= DEBOUNCE_MS

\* C10: in the one-shot pass, once the stop signal is raised no further
\* entry's build is invoked and the run does not return normally.
C10_NoBuildAfterStop ==
    [][(phase = "oneshot" /\ aborted) =>
          /\ \A p \in Packages : status'[p] = "BUSY" => status[p] = "BUSY"
          /\ phase' # "resolved"]_vars

IsPrefix(s, t) == Len(s) <= Len(t) /\ s = SubSeq(t, 1, Len(s))

\* C11: in the one-shot pass a failed build is reported as failed and
\* swallowed: the builds are invoked in schedule order, each entry's exactly
\* once by the end of the pass, whichever of them failed; the run is not
\* unwound (it rejects only when watch() finds the signal aborted), and a run
\* without --watch ends with every scheduled package reported PASS or FAIL.
C11_FailureSwallowed ==
    /\ [](IsPrefix(invoked, SchedulePkgs))
    /\ []((runState = "done" /\ phase # "oneshot") => invoked = SchedulePkgs)
    /\ [](phase = "rejected" => (watchMode /\ aborted))
    /\ []((~watchMode /\ phase = "resolved") =>
            \A i \in 1..Len(entries) : status[entries[i].pkg] \in {"PASS", "FAIL"})

\* A run without --watch and without a stop signal has returned; the first
\* entry's build failed, the last entry was built all the same and passed.
C11_Witness ==
    /\ ~watchMode
    /\ ~aborted
    /\ phase = "resolved"
    /\ Len(entries) >= 2
    /\ invoked = SchedulePkgs
    /\ status[entries[1].pkg] = "FAIL"
    /\ status[entries[Len(entries)].pkg] = "PASS"

\* C13: teardown calls stopWatching exactly once on every Builder on which
\* startWatching was called, however many stop signals arrive, and on no
\* other; once the stop signal is raised no package has an open file watcher,
\* also when a build in flight at teardown ends later and sets its watchFiles.
C13_StopWatchingOnce ==
    /\ [](\A p \in Packages : stopCalls[p] <= 1 /\ startCalls[p] <= 1)
    /\ [](aborted => \A p \in Packages : stopCalls[p] = startCalls[p] /\ ~watchers[p])

\* Two stop signals have arrived in watch mode; A's Builder was stopped once,
\* and the build of A that was in flight at teardown has ended since and has
\* set its watchFiles.
C13_Witness ==
    /\ signals = MaxSignals
    /\ startCalls["A"] = 1
    /\ stopCalls["A"] = 1
    /\ builds = <<>>
    /\ status["A"] = "PASS"
    /\ watchFiles["A"]
    /\ ~isWatching["A"]

\* C14: once the stop signal is raised no debounce timer is pending any more
\* (the timers are cancelled), and no entry is inserted into the queue, also
\* not by a timer that was started before the signal.
C14_TimersCancelled ==
    /\ [][aborted => Len(queue') <= Len(queue)]_vars
    /\ [](aborted => timers = <<>>)

\* ------------------------------------------- properties of the rolldown Dispatcher
RBuilding == {t \in Packages : wState[t] = "building"}

\* C3: in the rolldown Dispatcher's watch mode no two targets build at the
\* same time; a rebuild that triggerNext starts never runs during another
\* target's build, the initial build that watch() awaits included.
C3_OneBuildAtATime == Cardinality(RBuilding) <= 1

\* C12: when a run of the rolldown Dispatcher in which a build failed has
\* finished, every package registered with the reporter has a final status:
\* PASS, FAIL or SKIP, none is left IDLE or BUSY.
C12_FinalStatusForAll ==
    (/\ runState = "done"
     /\ rPhase \in {"resolved", "rejected"}
     /\ \E p \in Packages : rStatus[p] = "FAIL")
    => \A i \in 1..Len(entries) : rStatus[entries[i].pkg] \in {"PASS", "FAIL", "SKIP"}

\* ------------------------------------------------- properties of the activities
Made(a) == aKind[a] \in {"void", "promise"}

\* C15: an activity starts active and becomes inactive at most once and for
\* good: it is inactive after stop() was called and after the promise of its
\* block has settled, fulfilled or rejected; completed is resolved exactly
\* when it is inactive; further stop() calls change nothing.
C15_StopsOnceForGood ==
    /\ [](\A a \in Activities : Made(a) =>
            /\ aCompleted[a] <=> ~aIsActive[a]
            /\ aStops[a] > 0 => ~aIsActive[a]
            /\ aBlock[a] \in {"fulfilled", "rejected"} => ~aIsActive[a])
    /\ [][\A a \in Activities :
            /\ (~Made(a) /\ Made(a)') => (aIsActive'[a] /\ ~aCompleted'[a])
            /\ (Made(a) /\ ~aIsActive[a]) =>
                   (~aIsActive'[a] /\ aCompleted'[a] = aCompleted[a])]_vars

\* The main activity was stopped twice, and the block of the watcher activity
\* has rejected: both are inactive with completed resolved.
C15_Witness ==
    /\ aKind["main"] = "void"
    /\ aStops["main"] = MaxStops
    /\ ~aIsActive["main"]
    /\ aCompleted["main"]
    /\ aBlock["watcher"] = "rejected"
    /\ aStops["watcher"] = 0
    /\ ~aIsActive["watcher"]
    /\ aCompleted["watcher"]

\* C16: ensureActive() throws exactly when the activity is inactive: never
\* while no stop() was called and the block's promise is pending or absent,
\* always after stop(); activity.completed is inactive with completed
\* resolved from the start, so its ensureActive always throws.
C16_EnsureActive ==
    /\ [](~aIsActive["completed"] /\ aCompleted["completed"])
    /\ [][Len(ensureLog') > Len(ensureLog) =>
            LET e == ensureLog'[Len(ensureLog')]
            IN  /\ e.threw <=> ~aIsActive[e.act]
                /\ e.act = "completed" => e.threw
                /\ aStops[e.act] > 0 => e.threw
                /\ (Made(e.act) /\ aStops[e.act] = 0 /\ aBlock[e.act] \in {"none", "pending"})
                       => ~e.threw]_vars

\* ensureActive() of the main activity has returned before stop() and has
\* thrown after it.
C16_Witness ==
    /\ aStops["main"] > 0
    /\ ensureLog = <<[act |-> "main", threw |-> FALSE], [act |-> "main", threw |-> TRUE]>>

\* ------------------------------------------------ properties of Workspace.discover
\* The lists xs holds no two positions with the same value of f.
DistinctBy(xs, f(_)) ==
    \A i, j \in 1..Len(xs) : f(xs[i]) = f(xs[j]) => i = j

\* C17: under every interleaving of the concurrent Package.discover calls of
\* the glob matches, two matches that resolve to the same package directory
\* included, at most one Package instance exists per directory and the
\* packages of the workspace hold at most one member per directory.
C17_OnePerDirectory ==
    /\ DistinctBy(instances, LAMBDA d : d)
    /\ DistinctBy(wsPackages, LAMBDA p : DirOf(instances, p))

\* How often x occurs in the list xs.
Count(xs, x) == Cardinality({i \in 1..Len(xs) : xs[i] = x})

\* Member A references member B's name with a workspace-local ref in at least
\* one followed dependency kind.
References(A, B) ==
    \E i \in 1..Len(FollowDeps) : HasRef(manifest, instances, A, B, FollowDeps[i])

\* C18: once Workspace.discover has built the graph of a workspace with one
\* Package per directory, for distinct members A and B the edge A -> B occurs
\* exactly once in A.downstreamDependencies and exactly once in
\* B.upstreamDependents when A references B in at least one followed kind
\* (also when it does so in several kinds), and not at all otherwise.
C18_SingleEdge ==
    (wsPhase = "done" /\ C17_OnePerDirectory) =>
        \A A, B \in SeqToSet(wsPackages) :
            A # B =>
                /\ Count(wsDown[A], B) = (IF References(A, B) THEN 1 ELSE 0)
                /\ Count(wsUp[B], A) = (IF References(A, B) THEN 1 ELSE 0)

\* C19: a package that references its own name with a workspace-local ref
\* gets no self-edge: after Workspace.discover no package occurs in its own
\* downstreamDependencies or upstreamDependents, and scheduling the
\* workspace does not fail with a dependency-cycle error that such a
\* self-reference alone causes.
C19_NoSelfEdge ==
    /\ wsPhase = "done" =>
           \A p \in DOMAIN wsDown : p \notin SeqToSet(wsDown[p]) /\ p \notin SeqToSet(wsUp[p])
    /\ (wsRun = "threw") =>
           \E p, q \in DOMAIN wsDown : p # q /\ HasPath(wsDown, p, q) /\ HasPath(wsDown, q, p)

\* C20: no package whose name is in the exclusion list is among the packages
\* of the Workspace that Workspace.discover returns, the workspace root and
\* the packages found by walking up from a glob match included.
C20_Exclusion ==
    wsPhase = "done" =>
        \A i \in 1..Len(wsPackages) : NameOf(DirOf(instances, wsPackages[i])) \notin exclude

\* C21: the adjacency lists are mutually consistent, also after a second
\* Workspace.discover call: for all Packages A and B, B occurs in
\* A.downstreamDependencies exactly as often as A occurs in
\* B.upstreamDependents.
C21_MutuallyConsistent ==
    \A A, B \in SeqToSet(InstIds) : Count(wsDown[A], B) = Count(wsUp[B], A)

\* The graph was built and holds an edge.
C21_Witness ==
    /\ wsPhase = "done"
    /\ \E A, B \in SeqToSet(InstIds) : A # B /\ Count(wsDown[A], B) > 0

\* The second Workspace.discover call of the process has returned.
SecondReturned == wsPhase = "done" /\ wsFirst.called

\* Called with the same exclusion list, the second call returns the member
\* set of the first.
SameMembers ==
    (SecondReturned /\ exclude = wsFirst.exclude) =>
        SeqToSet(wsPackages) = SeqToSet(wsFirst.packages)

\* The second call adds no entry to any adjacency list.
NoEdgeAdded == SecondReturned => (wsDown = wsFirst.down /\ wsUp = wsFirst.up)

\* Every adjacency entry of a returned member is a returned member.
EdgesAmongMembers ==
    SecondReturned =>
        \A p \in SeqToSet(wsPackages) :
            SeqToSet(wsDown[p]) \cup SeqToSet(wsUp[p]) \subseteq SeqToSet(wsPackages)

\* C22: Workspace.discover is a pure function of root, file system and
\* options: a second call in the same process returns the same member set
\* and the same edges, adds no entry to any downstreamDependencies or
\* upstreamDependents, and every adjacency entry of a returned member is a
\* member of the returned Workspace, also under another exclusion list.
C22_PureFunction == SameMembers /\ NoEdgeAdded /\ EdgesAmongMembers

\* ------------------------------------------------ properties of the watch queue
\* The queue q without package p.
Without(q, p) == SelectSeq(q, LAMBDA e : e # p)

\* C23: an entry leaves the queue only when the build that the chain has
\* started for it completes, and the entry removed is the one that was
\* built, whose isDirty is cleared: also when an entry of higher priority
\* was enqueued ahead of it while its build was running.
C23_RemovesBuiltEntry ==
    [][Len(queue') < Len(queue) =>
          \E i \in 1..Len(builds) :
              /\ builds[i].by = "chain"
              /\ builds[i].pkg \in SeqToSet(queue)
              /\ queue' = Without(queue, builds[i].pkg)
              /\ ~isDirty'[builds[i].pkg]]_vars

\* The packages that are entries, and so watched, in every explored run.
WatchedUnits == {"A", "C"}

\* C24: no change is lost in watch mode: absent cancellation, a change that
\* was reported for a unit while the unit was queued or being built (the unit
\* has no build behind the report although its isDirty flag is cleared
\* again) is eventually followed by the start of a build of that unit.
C24_NoChangeLost ==
    \A p \in WatchedUnits : (unbuilt[p] /\ ~isDirty[p]) ~> (aborted \/ ~unbuilt[p])

\* C25: the completion that watch mode returns resolves only after the
\* teardown has finished: every watcher is closed and no build is running.
C25_ResolvesAfterTeardown ==
    (watchMode /\ phase = "resolved") =>
        /\ \A p \in Packages : ~watchers[p]
        /\ builds = <<>>

\* The builds in flight that the chain of buildNext has started.
ChainBuilds(bs) == SelectSeq(bs, LAMBDA b : b.by = "chain")

\* C26: after the stop signal no build is started from the queue, neither by
\* the completion chain nor by a timer that fires later, even if entries
\* remain queued: the builds of the chain stay as they are or the one in
\* flight ends.
C26_NoBuildFromQueueAfterStop ==
    [][aborted =>
          \/ ChainBuilds(builds') = ChainBuilds(builds)
          \/ /\ Len(ChainBuilds(builds)) = 1
             /\ ChainBuilds(builds') = <<>>]_vars

\* The stop signal has come while a build of the chain was in flight and an
\* entry is queued behind it; the build has ended.
C26_Witness ==
    /\ aborted
    /\ watchMode
    /\ queue # <<>>
    /\ builds = <<>>
    /\ \E p \in Packages : status[p] = "FAIL" /\ isDirty[queue[1]]

\* The same for the rolldown Dispatcher: once main is inactive triggerNext
\* starts no build, so no watcher goes from suspended to building.
C26_RolldownNoBuildAfterStop ==
    [][~mainActive =>
          \A t \in Packages : wState'[t] = "building" => wState[t] = "building"]_vars

\* C27: the watch queue is ordered by non-increasing priority from head to
\* tail; an enqueue places the new entry behind every entry of its own or a
\* higher priority and before every entry of lower priority, and neither an
\* enqueue nor a completed build changes the order of the other entries.
C27_PriorityOrder ==
    /\ [](\A i, j \in 1..Len(queue) :
             i < j => EntryPriorities[queue[i]] >= EntryPriorities[queue[j]])
    /\ [][Len(queue') > Len(queue) =>
             \E k \in 1..Len(queue') :
                 /\ queue = RemoveAt(queue', k)
                 /\ \A j \in 1..(k - 1) :
                        EntryPriorities[queue'[j]] >= EntryPriorities[queue'[k]]
                 /\ \A j \in (k + 1)..Len(queue') :
                        EntryPriorities[queue'[j]] < EntryPriorities[queue'[k]]]_vars
    /\ [][Len(queue') < Len(queue) =>
             \E k \in 1..Len(queue) : queue' = RemoveAt(queue, k)]_vars

\* Two entries of equal priority are queued, a third of lower priority
\* behind them.
C27_Witness ==
    /\ Len(queue) = 3
    /\ EntryPriorities[queue[1]] = EntryPriorities[queue[2]]
    /\ EntryPriorities[queue[2]] > EntryPriorities[queue[3]]

\* ------------------------------------------------ properties of the schedule
\* The package listed after position i of the cycle message, the first one
\* after the last.
CycleNext(i) == cycleInfo[(i % Len(cycleInfo)) + 1]

\* C28: the message of the dependency-cycle error lists the packages of the
\* detected cycle, each once, from the re-entered package along the
\* dependency edges back to it: every listed package depends on the one
\* listed after it, the last on the first.
C28_CyclePath ==
    runState = "threw" =>
        /\ cycleInfo # <<>>
        /\ \A i, j \in 1..Len(cycleInfo) : cycleInfo[i] = cycleInfo[j] => i = j
        /\ \A i \in 1..Len(cycleInfo) :
               CycleNext(i) \in SeqToSet(downstream[cycleInfo[i]])

\* C29: for an acyclic graph the schedule holds every package reachable from
\* the requested packages through downstreamDependencies exactly once, and
\* no other package, however many dependents or paths lead to a package.
C29_ReachableOnce ==
    runState = "done" =>
        /\ SeqToSet(SchedulePkgs) = Closure(downstream, SeqToSet(packages))
        /\ \A i, j \in 1..Len(entries) : entries[i].pkg = entries[j].pkg => i = j

\* A diamond was scheduled from two requests that both lead to D.
C29_Witness ==
    /\ DiamondGraph
    /\ packages = <<"B", "A">>
    /\ runState = "done"
    /\ Len(entries) = 4

\* ------------------------------------------------ properties of Package.cache
RECURSIVE Nearest(_)

\* The nearest directory at or above d that holds a package.json, "none" when
\* there is none: where an uncached Package.discover from d ends.
Nearest(d) ==
    IF HasManifest(d) THEN d
    ELSE IF Parent(d) = d THEN "none"
         ELSE Nearest(Parent(d))

\* C30: the cache never changes an outcome: what Package.cache holds for a
\* directory, and so what the next Package.discover call from there returns,
\* is what an uncached call returns: a Package of the nearest directory with
\* a package.json, null only when there is none.
C30_CacheKeepsOutcome ==
    \A d \in Dirs :
        cache[d] # "undef" =>
            IF Nearest(d) = "none" THEN cache[d] = Null
            ELSE cache[d] # Null /\ DirOf(instances, cache[d]) = Nearest(d)

====
